---------------------------- MODULE Spec2Model ----------------------------
(***************************************************************************)
(* The Brewmaster StaggerPoolGraph analyzer                                *)
(* (src/parser/monk/brewmaster/modules/features/StaggerPoolGraph.js).      *)
(*                                                                         *)
(* The analyzer is fed combat-log events one at a time by the parser and   *)
(* keeps four buffers and two scalars; plot() projects the buffers into    *)
(* the series handed to the StaggerGraph component.                        *)
(*                                                                         *)
(* JavaScript objects are modelled as functions from property names to     *)
(* values.  A property whose value is undefined is modelled as an absent   *)
(* property: reading either one yields undefined in JavaScript.            *)
(***************************************************************************)
EXTENDS Integers, Sequences, FiniteSets, TLC

VARIABLES
  staggerEvents,  \* this._staggerEvents
  purifyEvents,   \* this._purifyEvents
  hpEvents,       \* this._hpEvents
  deathEvents,    \* this._deathEvents
  lastHp,         \* this._lastHp
  lastMaxHp,      \* this._lastMaxHp
  event,          \* the event most recently handed to a handler
  thrown,         \* how that handler call ended: "none" or "TypeError"
  delivered,      \* number of events handed to the analyzer so far, per type
  returned        \* what the most recent call returned: the <StaggerGraph>
                  \* props for plot(), Undefined for a handler

vars == <<staggerEvents, purifyEvents, hpEvents, deathEvents, lastHp,
          lastMaxHp, event, thrown, delivered, returned>>

accumulator == <<staggerEvents, purifyEvents, hpEvents, deathEvents, lastHp,
                 lastMaxHp>>

-----------------------------------------------------------------------------
(* Bounds of the model *)

\* events fed to one analyzer
MaxEvents == 3

\* sample values carried by the events
HitPointSamples == {0, 1}

MaxHitPointSamples == {0, 2}

PooledDamageSamples == {1}

AmountSamples == {1, 2}

\* the instants of the fight at which events occur
Instants == {100, 200}

-----------------------------------------------------------------------------
(* Spell identifiers *)

SPELLS == [PURIFYING_BREW |-> [id |-> "PURIFYING_BREW"],
           STAGGER        |-> [id |-> "STAGGER"]]

-----------------------------------------------------------------------------
(* JavaScript object helpers *)

\* obj.name !== undefined
Has(obj, name) == name \in DOMAIN obj

\* the condition of `obj.name ? a : b`: undefined and 0 are falsy
Truthy(obj, name) == Has(obj, name) /\ obj[name] # 0

\* {...obj, name: value}
Spread(obj, extra) == extra @@ obj

\* an object literal {..., name: value} whose value may be undefined
WithProp(obj, name, holder, from) ==
  IF Has(holder, from) THEN (name :> holder[from]) @@ obj ELSE obj

EventTypes == {"addstagger", "removestagger", "damage", "heal", "death"}

NoEvent == [type |-> "none"]

Undefined == [type |-> "undefined"]


-----------------------------------------------------------------------------
(* Events the parser can hand to the analyzer *)

\* event.trigger of a removestagger event: the event that caused the removal,
\* which may or may not name an ability
Triggers ==
  {[type |-> "cast"]}
    \cup {[type |-> "cast", ability |-> [guid |-> g]] :
            g \in {SPELLS.PURIFYING_BREW.id, SPELLS.STAGGER.id}}

AddStaggerEvents(t) ==
  {[type |-> "addstagger", timestamp |-> t]}
    \cup {[type |-> "addstagger", timestamp |-> t, newPooledDamage |-> p] :
            p \in PooledDamageSamples}

RemoveStaggerEvents(t) ==
  {[type |-> "removestagger", timestamp |-> t, amount |-> a,
    newPooledDamage |-> p, trigger |-> tr] :
      a \in AmountSamples, p \in PooledDamageSamples, tr \in Triggers}

\* damage and heal events carry optional hitPoints and maxHitPoints
HealthEvents(kind, t) ==
  LET bare == [type |-> kind, timestamp |-> t]
  IN  {bare}
        \cup {[type |-> kind, timestamp |-> t, hitPoints |-> h] : h \in HitPointSamples}
        \cup {[type |-> kind, timestamp |-> t, maxHitPoints |-> m] :
                m \in MaxHitPointSamples}
        \cup {[type |-> kind, timestamp |-> t, hitPoints |-> h,
               maxHitPoints |-> m] :
                h \in HitPointSamples, m \in MaxHitPointSamples}

DeathEvents(t) == {[type |-> "death", timestamp |-> t]}

\* the fight's clock: events arrive in non-decreasing timestamp order
Now == IF event = NoEvent THEN 0 ELSE event.timestamp

Timestamps == {t \in Instants : t >= Now}

Delivered == delivered.addstagger + delivered.removestagger
               + delivered.damage + delivered.heal + delivered.death

-----------------------------------------------------------------------------
(* The handlers *)

Last(s) == s[Len(s)]

\* the parser's call of a handler that returned normally
Dispatched(e) ==
  /\ event' = e
  /\ thrown' = "none"
  /\ delivered' = [delivered EXCEPT ![e.type] = @ + 1]
  /\ returned' = Undefined

\* the parser's call of a handler that threw
Threw(e, error) ==
  /\ event' = e
  /\ thrown' = error
  /\ delivered' = [delivered EXCEPT ![e.type] = @ + 1]
  /\ returned' = Undefined

\* StaggerRecord with the two snapshot fields exchanged
StaggerRecord_Swapped(e) ==
  Spread(e, [hitPoints |-> lastMaxHp, maxHitPoints |-> lastHp])

\* {...event, hitPoints: this._lastHp, maxHitPoints: this._lastMaxHp}
StaggerRecord(e) ==
  Spread(e, [hitPoints |-> lastHp, maxHitPoints |-> lastMaxHp])

\* on_addstagger that puts the record at the front of the buffer
on_addstagger_Unshift(e) ==
  /\ staggerEvents' = <<StaggerRecord(e)>> \o staggerEvents
  /\ Dispatched(e)
  /\ UNCHANGED <<purifyEvents, hpEvents, deathEvents, lastHp, lastMaxHp>>

on_addstagger(e) ==
  /\ staggerEvents' = Append(staggerEvents, StaggerRecord(e))
  /\ Dispatched(e)
  /\ UNCHANGED <<purifyEvents, hpEvents, deathEvents, lastHp, lastMaxHp>>

\* IsPurify without the comparison of the guid
IsPurify_AnyAbility(e) == Has(e.trigger, "ability")

\* event.trigger.ability && event.trigger.ability.guid === SPELLS.PURIFYING_BREW.id
IsPurify(e) ==
  /\ Has(e.trigger, "ability")
  /\ e.trigger.ability.guid = SPELLS.PURIFYING_BREW.id

\* PurifyRecord that keeps the removal's own timestamp
PurifyRecord_OwnTimestamp(e) ==
  Spread(e, [previousTimestamp |-> e.timestamp])

\* {...event, previousTimestamp: <timestamp of the last stagger event>}
PurifyRecord(e) ==
  Spread(e, [previousTimestamp |-> Last(staggerEvents).timestamp])

\* on_removestagger that skips the purify record on an empty array and goes on
on_removestagger_Guarded(e) ==
  /\ purifyEvents' = IF IsPurify(e) /\ staggerEvents # <<>>
                      THEN Append(purifyEvents, PurifyRecord(e))
                      ELSE purifyEvents
  /\ staggerEvents' = Append(staggerEvents, StaggerRecord(e))
  /\ Dispatched(e)
  /\ UNCHANGED <<hpEvents, deathEvents, lastHp, lastMaxHp>>

\* on_removestagger that pushes the removal before it records the purify
on_removestagger_PushFirst(e) ==
  /\ staggerEvents' = Append(staggerEvents, StaggerRecord(e))
  /\ purifyEvents' =
       IF IsPurify(e)
       THEN Append(purifyEvents,
                   Spread(e, [previousTimestamp |-> Last(staggerEvents').timestamp]))
       ELSE purifyEvents
  /\ Dispatched(e)
  /\ UNCHANGED <<hpEvents, deathEvents, lastHp, lastMaxHp>>

\* this._staggerEvents[length - 1] is undefined on an empty array, and reading
\* .timestamp of undefined throws before the push is called
on_removestagger(e) ==
  IF IsPurify(e) /\ staggerEvents = <<>>
  THEN /\ Threw(e, "TypeError")
       /\ UNCHANGED accumulator
  ELSE /\ purifyEvents' = IF IsPurify(e)
                          THEN Append(purifyEvents, PurifyRecord(e))
                          ELSE purifyEvents
       /\ staggerEvents' = Append(staggerEvents, StaggerRecord(e))
       /\ Dispatched(e)
       /\ UNCHANGED <<hpEvents, deathEvents, lastHp, lastMaxHp>>

\* on_toPlayer_death that pushes to the stagger buffer
on_toPlayer_death_WrongBuffer(e) ==
  /\ staggerEvents' = Append(staggerEvents, e)
  /\ Dispatched(e)
  /\ UNCHANGED <<purifyEvents, hpEvents, deathEvents, lastHp, lastMaxHp>>

on_toPlayer_death(e) ==
  /\ deathEvents' = Append(deathEvents, e)
  /\ Dispatched(e)
  /\ UNCHANGED <<staggerEvents, purifyEvents, hpEvents, lastHp, lastMaxHp>>

\* NextLastHp that tests hitPoints !== undefined, so that 0 is taken
NextLastHp_Defined(e, last) == IF Has(e, "hitPoints") THEN e.hitPoints ELSE last

\* event.hitPoints ? event.hitPoints : this._lastHp
NextLastHp(e, last) == IF Truthy(e, "hitPoints") THEN e.hitPoints ELSE last

\* NextLastMaxHp that tests maxHitPoints !== undefined, so that 0 is taken
NextLastMaxHp_Defined(e, last) ==
  IF Has(e, "maxHitPoints") THEN e.maxHitPoints ELSE last

\* event.maxHitPoints ? event.maxHitPoints : this._lastMaxHp
NextLastMaxHp(e, last) ==
  IF Truthy(e, "maxHitPoints") THEN e.maxHitPoints ELSE last

on_toPlayer_damage(e) ==
  /\ hpEvents' = Append(hpEvents, e)
  /\ lastHp' = NextLastHp(e, lastHp)
  /\ lastMaxHp' = NextLastMaxHp(e, lastMaxHp)
  /\ Dispatched(e)
  /\ UNCHANGED <<staggerEvents, purifyEvents, deathEvents>>

\* on_toPlayer_heal that also stamps the last stagger record with the new health
on_toPlayer_heal_Restamping(e) ==
  /\ hpEvents' = Append(hpEvents, e)
  /\ lastHp' = NextLastHp(e, lastHp)
  /\ lastMaxHp' = NextLastMaxHp(e, lastMaxHp)
  /\ staggerEvents' =
       IF staggerEvents = <<>> THEN staggerEvents
       ELSE [staggerEvents EXCEPT ![Len(staggerEvents)] =
               Spread(@, [hitPoints |-> lastHp', maxHitPoints |-> lastMaxHp'])]
  /\ Dispatched(e)
  /\ UNCHANGED <<purifyEvents, deathEvents>>

on_toPlayer_heal(e) ==
  /\ hpEvents' = Append(hpEvents, e)
  /\ lastHp' = NextLastHp(e, lastHp)
  /\ lastMaxHp' = NextLastMaxHp(e, lastMaxHp)
  /\ Dispatched(e)
  /\ UNCHANGED <<staggerEvents, purifyEvents, deathEvents>>

-----------------------------------------------------------------------------
(* plot(): the projection of the buffers *)

\* array.map(f)
Map(s, F(_)) == [i \in 1 .. Len(s) |-> F(s[i])]

\* array.filter(p)
Filter(s, P(_)) == SelectSeq(s, P)

\* StaggerPoint with y defaulting to 0
StaggerPoint_ZeroFill(r) ==
  WithProp(WithProp([x |-> r.timestamp,
                     y |-> IF Has(r, "newPooledDamage") THEN r.newPooledDamage
                           ELSE 0],
    "hp", r, "hitPoints"), "maxHp", r, "maxHitPoints")

\* {x: timestamp, y: newPooledDamage, hp: hitPoints, maxHp: maxHitPoints}
StaggerPoint(r) ==
  WithProp(WithProp(WithProp([x |-> r.timestamp],
    "y", r, "newPooledDamage"), "hp", r, "hitPoints"), "maxHp", r, "maxHitPoints")

\* PurifyPoint that plots the pool level left after the purification
PurifyPoint_PostLevel(r) ==
  [x |-> r.previousTimestamp, y |-> r.newPooledDamage, amount |-> r.amount]

\* {x: previousTimestamp, y: newPooledDamage + amount, amount}
PurifyPoint(r) ==
  [x |-> r.previousTimestamp, y |-> r.newPooledDamage + r.amount,
   amount |-> r.amount]

\* HpPoint that plots the maximum health
HpPoint_FromMax(r) == [x |-> r.timestamp, y |-> r.maxHitPoints]

\* {x: timestamp, y: hitPoints}
HpPoint(r) == [x |-> r.timestamp, y |-> r.hitPoints]

\* {x: timestamp, y: maxHitPoints}
MaxHpPoint(r) == [x |-> r.timestamp, y |-> r.maxHitPoints]

\* {x: timestamp}
DeathPoint(r) == [x |-> r.timestamp]

\* HasHitPoints as a truthiness test
HasHitPoints_Truthy(r) == Truthy(r, "hitPoints")

\* ({hitPoints}) => hitPoints !== undefined
HasHitPoints(r) == Has(r, "hitPoints")

\* ({maxHitPoints}) => maxHitPoints !== undefined
HasMaxHitPoints(r) == Has(r, "maxHitPoints")

\* StaggerSeries in which a point without a pool level takes the level of the
\* point before it
StaggerSeries_CarryForward(events) ==
  LET Level[i \in 0 .. Len(events)] ==
        IF i = 0 THEN 0
        ELSE IF Has(events[i], "newPooledDamage")
             THEN events[i].newPooledDamage
             ELSE Level[i - 1]
  IN  [i \in 1 .. Len(events) |->
         ("y" :> Level[i]) @@ StaggerPoint(events[i])]

StaggerSeries(events) == Map(events, StaggerPoint)

\* PurifySeries with the newest marker first
PurifySeries_NewestFirst(events) ==
  [i \in 1 .. Len(events) |-> PurifyPoint(events[Len(events) + 1 - i])]

PurifySeries(events) == Map(events, PurifyPoint)

HpSeries(events) == Map(Filter(events, HasHitPoints), HpPoint)

MaxHpSeries(events) == Map(Filter(events, HasMaxHitPoints), MaxHpPoint)

DeathSeries(events) == Map(events, DeathPoint)

Props ==
  [stagger  |-> StaggerSeries(staggerEvents),
   hp       |-> HpSeries(hpEvents),
   maxHp    |-> MaxHpSeries(hpEvents),
   purifies |-> PurifySeries(purifyEvents),
   deaths   |-> DeathSeries(deathEvents)]

\* plot that reverses the stagger buffer in place before mapping it
plot_ReversingInPlace ==
  /\ staggerEvents' = [i \in 1 .. Len(staggerEvents) |->
                         staggerEvents[Len(staggerEvents) + 1 - i]]
  /\ returned' = [Props EXCEPT !.stagger = StaggerSeries(staggerEvents')]
  /\ UNCHANGED <<purifyEvents, hpEvents, deathEvents, lastHp, lastMaxHp,
                 event, thrown, delivered>>

plot ==
  /\ returned' = Props
  /\ UNCHANGED <<accumulator, event, thrown, delivered>>

-----------------------------------------------------------------------------
(* The analyzer's life *)

Init ==
  /\ staggerEvents = <<>>
  /\ purifyEvents = <<>>
  /\ hpEvents = <<>>
  /\ deathEvents = <<>>
  /\ lastHp = 0
  /\ lastMaxHp = 0
  /\ event = NoEvent
  /\ thrown = "none"
  /\ delivered = [t \in EventTypes |-> 0]
  /\ returned = Undefined

AddStagger ==
  /\ Delivered < MaxEvents
  /\ \E t \in Timestamps : \E e \in AddStaggerEvents(t) : on_addstagger(e)

RemoveStagger ==
  /\ Delivered < MaxEvents
  /\ \E t \in Timestamps : \E e \in RemoveStaggerEvents(t) : on_removestagger(e)

Damage ==
  /\ Delivered < MaxEvents
  /\ \E t \in Timestamps : \E e \in HealthEvents("damage", t) :
       on_toPlayer_damage(e)

Heal ==
  /\ Delivered < MaxEvents
  /\ \E t \in Timestamps : \E e \in HealthEvents("heal", t) : on_toPlayer_heal(e)

Death ==
  /\ Delivered < MaxEvents
  /\ \E t \in Timestamps : \E e \in DeathEvents(t) : on_toPlayer_death(e)

Plot == plot

Next == AddStagger \/ RemoveStagger \/ Damage \/ Heal \/ Death \/ Plot

Spec == Init /\ [][Next]_vars

-----------------------------------------------------------------------------
(* Vocabulary of the properties *)

\* the step is a call of the handler of events of this type
Ingests(type) == delivered'[type] = delivered[type] + 1

\* a removestagger event whose trigger names Purifying Brew
PurificationRemoval(e) ==
  /\ e.type = "removestagger"
  /\ "ability" \in DOMAIN e.trigger
  /\ e.trigger.ability = [guid |-> SPELLS.PURIFYING_BREW.id]

\* s is t with exactly one more element at its end
GrowsByOne(s, t) == Len(t) = Len(s) + 1 /\ SubSeq(t, 1, Len(s)) = s

PoolSeries == StaggerSeries(staggerEvents)

PurifyMarkers == PurifySeries(purifyEvents)

-----------------------------------------------------------------------------
(* C1 *)

\* C1, as stated: every ingestion of a purification-triggered StaggerRemove, in
\* any event stream, adds exactly one purify marker, whose x is the timestamp
\* of the record that was last in staggerEvents when the removal arrived.
C1_EveryPurificationMarked ==
  [][Ingests("removestagger") /\ PurificationRemoval(event')
       => /\ GrowsByOne(PurifyMarkers, PurifyMarkers')
          /\ Last(PurifyMarkers').x = Last(staggerEvents).timestamp]_vars

\* C1, amended: every ingestion of a purification-triggered StaggerRemove that
\* finds staggerEvents non-empty adds exactly one purify marker, whose x is the
\* timestamp of the record that was last in staggerEvents when the removal
\* arrived (before the removal itself is appended); one that finds
\* staggerEvents empty adds no marker.
C1_PurificationMarkedAtPrevious ==
  [][Ingests("removestagger") /\ PurificationRemoval(event')
       => IF staggerEvents # <<>>
          THEN /\ GrowsByOne(PurifyMarkers, PurifyMarkers')
               /\ Last(PurifyMarkers').x = Last(staggerEvents).timestamp
          ELSE PurifyMarkers' = PurifyMarkers]_vars

\* a purification has just been marked at an earlier instant than its own
C1_Witness ==
  /\ PurificationRemoval(event)
  /\ thrown = "none"
  /\ Len(staggerEvents) >= 2
  /\ Last(PurifyMarkers).x = staggerEvents[Len(staggerEvents) - 1].timestamp
  /\ Last(PurifyMarkers).x < event.timestamp

-----------------------------------------------------------------------------
(* C2 *)

\* C2: a purification-triggered StaggerRemove ingested while staggerEvents is
\* empty records no purify record, ends in an error, and leaves the four
\* buffers and the two scalars exactly as they were.
C2_EmptyHistoryFailsCleanly ==
  [][Ingests("removestagger") /\ PurificationRemoval(event')
       /\ staggerEvents = <<>>
       => /\ thrown' = "TypeError"
          /\ purifyEvents' = purifyEvents
          /\ staggerEvents' = <<>>
          /\ hpEvents' = hpEvents
          /\ deathEvents' = deathEvents
          /\ lastHp' = lastHp
          /\ lastMaxHp' = lastMaxHp]_vars

\* the failure has just happened on an analyzer that had state to lose
C2_Witness ==
  /\ PurificationRemoval(event)
  /\ thrown = "TypeError"
  /\ staggerEvents = <<>>
  /\ hpEvents # <<>>
  /\ lastHp # 0

-----------------------------------------------------------------------------
(* C3 *)

\* the records of staggerEvents made from purification-triggered removals
PurificationRecords == SelectSeq(staggerEvents, PurificationRemoval)

\* C3: the i-th purify marker has y equal to newPooledDamage plus amount of the
\* i-th purification-triggered removal, and that removal's amount; so y minus
\* amount is the pool level recorded after the purification.
C3_AdditiveReconstruction ==
  /\ Len(PurifyMarkers) = Len(PurificationRecords)
  /\ \A i \in 1 .. Len(PurifyMarkers) :
       LET marker == PurifyMarkers[i]
           removal == PurificationRecords[i]
       IN  /\ marker.y = removal.newPooledDamage + removal.amount
           /\ marker.amount = removal.amount
           /\ marker.y - marker.amount = removal.newPooledDamage

\* two purifications of different amounts have been marked
C3_Witness ==
  /\ Len(PurifyMarkers) >= 2
  /\ PurifyMarkers[1].amount # PurifyMarkers[2].amount

-----------------------------------------------------------------------------
(* C4 *)

\* C4: ingesting a StaggerRemove whose trigger names another ability, or no
\* ability, raises no error, leaves purifyEvents unchanged and appends exactly
\* one record to staggerEvents: the pool series grows by one point and the
\* purify markers do not grow, whether or not staggerEvents was empty.
C4_OtherRemovalOnlyPooled ==
  [][Ingests("removestagger") /\ ~PurificationRemoval(event')
       => /\ thrown' = "none"
          /\ purifyEvents' = purifyEvents
          /\ GrowsByOne(staggerEvents, staggerEvents')
          /\ GrowsByOne(PoolSeries, PoolSeries')
          /\ PurifyMarkers' = PurifyMarkers]_vars

\* a removal by another ability arrived first, then one that names no ability
C4_Witness ==
  /\ Len(staggerEvents) = 2
  /\ staggerEvents[1].type = "removestagger"
  /\ "ability" \in DOMAIN staggerEvents[1].trigger
  /\ staggerEvents[1].trigger.ability = [guid |-> SPELLS.STAGGER.id]
  /\ event.type = "removestagger"
  /\ "ability" \notin DOMAIN event.trigger
  /\ thrown = "none"
  /\ purifyEvents = <<>>

-----------------------------------------------------------------------------
(* C5 *)

\* no damage or heal event so far carried a non-zero value of the field
NeverObserved(field) ==
  \A i \in 1 .. Len(hpEvents) :
    field \notin DOMAIN hpEvents[i] \/ hpEvents[i][field] = 0

\* C5: a record appended to staggerEvents carries the lastHp and lastMaxHp of
\* the moment it is appended (0 while no health value has been observed), and
\* no step changes a record that is already in staggerEvents.
C5_SnapshotAtAppend ==
  [][/\ (Ingests("addstagger") \/ Ingests("removestagger")) /\ thrown' = "none"
          => /\ GrowsByOne(staggerEvents, staggerEvents')
             /\ Last(staggerEvents').hitPoints = lastHp
             /\ Last(staggerEvents').maxHitPoints = lastMaxHp
             /\ NeverObserved("hitPoints") => Last(staggerEvents').hitPoints = 0
             /\ NeverObserved("maxHitPoints")
                  => Last(staggerEvents').maxHitPoints = 0
     /\ Len(staggerEvents') >= Len(staggerEvents)
     /\ \A i \in 1 .. Len(staggerEvents) : staggerEvents'[i] = staggerEvents[i]
    ]_vars

\* a record was appended, and a later health event has just moved both scalars
\* away from the record's snapshot
C5_Witness ==
  /\ Len(staggerEvents) >= 1
  /\ event.type \in {"damage", "heal"}
  /\ staggerEvents[1].hitPoints # lastHp
  /\ staggerEvents[1].maxHitPoints # lastMaxHp

-----------------------------------------------------------------------------
(* C6 *)

\* the value the scalar takes when this event is handled
Carried(e, field, last) ==
  IF field \in DOMAIN e /\ e[field] # 0 THEN e[field] ELSE last

\* C6: a Damage or Heal event sets lastHp to its hitPoints when that is present
\* and non-zero and leaves lastHp alone otherwise; lastMaxHp follows
\* maxHitPoints in the same way, independently.
C6_LastKnownHealth ==
  [][Ingests("damage") \/ Ingests("heal")
       => /\ lastHp' = Carried(event', "hitPoints", lastHp)
          /\ lastMaxHp' = Carried(event', "maxHitPoints", lastMaxHp)]_vars

\* an event with a zero hitPoints and a new maxHitPoints has just left a known
\* lastHp in place
C6_Witness ==
  /\ event.type \in {"damage", "heal"}
  /\ "hitPoints" \in DOMAIN event
  /\ event.hitPoints = 0
  /\ lastHp # 0
  /\ "maxHitPoints" \in DOMAIN event
  /\ lastMaxHp = event.maxHitPoints
  /\ lastMaxHp # 0

-----------------------------------------------------------------------------
(* C7 *)

\* plot() was the most recent call: `returned` holds the props it built
Plotted == returned # Undefined

\* C7: the pool series has one point per record of staggerEvents, in order,
\* with x the record's timestamp, y the record's own newPooledDamage (absent
\* where the record has none) and hp/maxHp the record's health snapshot.
C7_PoolSeriesPassthrough ==
  Plotted
    => /\ Len(returned.stagger) = Len(staggerEvents)
       /\ \A i \in 1 .. Len(staggerEvents) :
            LET point == returned.stagger[i]
                record == staggerEvents[i]
            IN  /\ point.x = record.timestamp
                /\ IF "newPooledDamage" \in DOMAIN record
                   THEN "y" \in DOMAIN point /\ point.y = record.newPooledDamage
                   ELSE "y" \notin DOMAIN point
                /\ point.hp = record.hitPoints
                /\ point.maxHp = record.maxHitPoints

\* a series was plotted from a record with a pool level followed by one without
C7_Witness ==
  /\ Plotted
  /\ Len(returned.stagger) >= 2
  /\ "y" \in DOMAIN returned.stagger[1]
  /\ "y" \notin DOMAIN returned.stagger[2]
  /\ returned.stagger[2].hp # 0

-----------------------------------------------------------------------------
(* C8 *)

\* C8, as stated: every point of the pool series has a defined y.
C8_EveryPointHasLevel ==
  Plotted => \A i \in 1 .. Len(returned.stagger) : "y" \in DOMAIN returned.stagger[i]

\* C8, amended: a point of the pool series has a defined y exactly when its
\* record carries a newPooledDamage: every point made from a StaggerRemove
\* record has one, and a point made from a StaggerAdd record that carries no
\* newPooledDamage has none.
C8_LevelDefinedWhenCarried ==
  Plotted
    => \A i \in 1 .. Len(returned.stagger) :
         /\ i <= Len(staggerEvents)
         /\ staggerEvents[i].type = "removestagger"
              => "y" \in DOMAIN returned.stagger[i]
         /\ ("y" \in DOMAIN returned.stagger[i])
              <=> ("newPooledDamage" \in DOMAIN staggerEvents[i])

\* a StaggerAdd record without newPooledDamage was plotted next to a removal
C8_Witness ==
  /\ Plotted
  /\ \E i \in 1 .. Len(staggerEvents) :
       /\ staggerEvents[i].type = "addstagger"
       /\ "newPooledDamage" \notin DOMAIN staggerEvents[i]
       /\ "y" \notin DOMAIN returned.stagger[i]
  /\ \E i \in 1 .. Len(staggerEvents) :
       /\ staggerEvents[i].type = "removestagger"
       /\ "y" \in DOMAIN returned.stagger[i]

-----------------------------------------------------------------------------
(* C9 *)

\* the series holds, in order, exactly the points of the hpEvents that define
\* the field
SeriesOfDefined(series, field) ==
  LET kept == {i \in 1 .. Len(hpEvents) : field \in DOMAIN hpEvents[i]}
      excluded == (1 .. Len(hpEvents)) \ kept
      Rank(i) == Cardinality({j \in kept : j <= i})
  IN  /\ Len(series) + Cardinality(excluded) = Len(hpEvents)
      /\ \A i \in kept :
           series[Rank(i)] = [x |-> hpEvents[i].timestamp, y |-> hpEvents[i][field]]

\* C9: every Damage/Heal event is appended to hpEvents, whatever it carries;
\* the health series is exactly the hpEvents with a defined hitPoints, in
\* order, as {x: timestamp, y: hitPoints}, and the max-health series the same
\* with maxHitPoints.
C9_HealthSeriesFiltered ==
  /\ Len(hpEvents) = delivered.damage + delivered.heal
  /\ event.type \in {"damage", "heal"} => Last(hpEvents) = event
  /\ Plotted => /\ SeriesOfDefined(returned.hp, "hitPoints")
                /\ SeriesOfDefined(returned.maxHp, "maxHitPoints")

\* plotted: an event with neither field, one with a zero hitPoints only, and
\* one with a maxHitPoints only
C9_Witness ==
  /\ Plotted
  /\ \E i \in 1 .. Len(hpEvents) :
       DOMAIN hpEvents[i] = {"type", "timestamp"}
  /\ \E i \in 1 .. Len(hpEvents) :
       DOMAIN hpEvents[i] = {"type", "timestamp", "hitPoints"}
         /\ hpEvents[i].hitPoints = 0
  /\ Len(returned.hp) = 1
  /\ Len(returned.maxHp) = 1

-----------------------------------------------------------------------------
(* C10 *)

\* C10: while no StaggerAdd and no StaggerRemove has been delivered, no
\* ingestion has raised an error and the pool series and the purify markers are
\* empty.
C10_NoStaggerNoPool ==
  delivered.addstagger = 0 /\ delivered.removestagger = 0
    => /\ thrown = "none"
       /\ PoolSeries = <<>>
       /\ PurifyMarkers = <<>>
       /\ Plotted => returned.stagger = <<>> /\ returned.purifies = <<>>

\* a Damage, a Heal and a Death were delivered, no stagger event, and the
\* series were plotted
C10_Witness ==
  /\ delivered.addstagger = 0
  /\ delivered.removestagger = 0
  /\ delivered.damage >= 1
  /\ delivered.heal >= 1
  /\ delivered.death >= 1
  /\ Plotted
  /\ returned.stagger = <<>>
  /\ returned.hp # <<>>

-----------------------------------------------------------------------------
(* C11 *)

\* the step is a call of plot(): no event is delivered and props are returned
PlotStep == delivered' = delivered /\ returned' # Undefined

\* C11: a call of plot() leaves the four buffers and the two scalars as they
\* were, and a call that follows another with no ingestion in between returns
\* the same five series.
C11_ProjectionReadsOnly ==
  [][PlotStep
       => /\ staggerEvents' = staggerEvents
          /\ purifyEvents' = purifyEvents
          /\ hpEvents' = hpEvents
          /\ deathEvents' = deathEvents
          /\ lastHp' = lastHp
          /\ lastMaxHp' = lastMaxHp
          /\ Plotted => returned' = returned]_vars

\* plot() has run on an analyzer whose stagger records differ in time and whose
\* other buffers are not all empty
C11_Witness ==
  /\ Plotted
  /\ Len(staggerEvents) >= 2
  /\ staggerEvents[1].timestamp # staggerEvents[2].timestamp
  /\ purifyEvents # <<>>
  /\ Len(returned.stagger) = 2
  /\ Len(returned.purifies) = 1

-----------------------------------------------------------------------------
(* C12 *)

\* the stream of the scenario
Scenario ==
  <<[type |-> "addstagger", timestamp |-> 100],
    [type |-> "damage", timestamp |-> 150, hitPoints |-> 80,
     maxHitPoints |-> 100],
    [type |-> "removestagger", timestamp |-> 200, amount |-> 15,
     newPooledDamage |-> 5,
     trigger |-> [type |-> "cast",
                  ability |-> [guid |-> SPELLS.PURIFYING_BREW.id]]],
    [type |-> "death", timestamp |-> 250]>>

\* the events of the scenario, and a heal that is not part of it
ScenarioEvents ==
  {Scenario[i] : i \in 1 .. Len(Scenario)}
    \cup {[type |-> "heal", timestamp |-> 175, hitPoints |-> 90,
           maxHitPoints |-> 100]}

\* a fresh analyzer is fed events of ScenarioEvents in timestamp order, any of
\* them any number of times, as many events as the scenario has
ScenarioFeed(type, e) ==
  /\ Delivered < Len(Scenario)
  /\ e.type = type
  /\ e.timestamp >= Now

ScenarioAddStagger ==
  \E e \in ScenarioEvents : ScenarioFeed("addstagger", e) /\ on_addstagger(e)

ScenarioRemoveStagger ==
  \E e \in ScenarioEvents :
    ScenarioFeed("removestagger", e) /\ on_removestagger(e)

ScenarioDamage ==
  \E e \in ScenarioEvents : ScenarioFeed("damage", e) /\ on_toPlayer_damage(e)

ScenarioHeal ==
  \E e \in ScenarioEvents : ScenarioFeed("heal", e) /\ on_toPlayer_heal(e)

ScenarioDeath ==
  \E e \in ScenarioEvents : ScenarioFeed("death", e) /\ on_toPlayer_death(e)

ScenarioNext ==
  \/ ScenarioAddStagger
  \/ ScenarioRemoveStagger
  \/ ScenarioDamage
  \/ ScenarioHeal
  \/ ScenarioDeath
  \/ Plot

ScenarioSpec == Init /\ [][ScenarioNext]_vars

\* the events delivered are those of the scenario, once each: as timestamps do
\* not decrease, they were delivered in the scenario's order
ScenarioDelivered ==
  delivered = [t \in EventTypes |-> IF t = "heal" THEN 0 ELSE 1]

\* C12: after [StaggerAdd@100, Damage@150(80/100), purification
\* StaggerRemove@200(newPooledDamage 5, amount 15), Death@250] the pool series
\* has two points, at x 100 and x 200, the second with y 5; the purify markers
\* are [{x: 100, y: 20, amount: 15}], the health series [{x: 150, y: 80}] and
\* the death markers [{x: 250}].
C12_Scenario ==
  ScenarioDelivered /\ Plotted
    => /\ Len(returned.stagger) = 2
       /\ returned.stagger[1].x = 100
       /\ returned.stagger[2].x = 200
       /\ "y" \in DOMAIN returned.stagger[2]
       /\ returned.stagger[2].y = 5
       /\ returned.purifies = <<[x |-> 100, y |-> 20, amount |-> 15]>>
       /\ returned.hp = <<[x |-> 150, y |-> 80]>>
       /\ returned.deaths = <<[x |-> 250]>>

\* the scenario was fed and plotted
C12_Witness ==
  /\ ScenarioDelivered
  /\ Plotted
  /\ event = Scenario[4]
  /\ thrown = "none"

-----------------------------------------------------------------------------
(* C13 *)

\* the x values (timestamps) of a sequence of records do not decrease
NonDecreasing(s, field) ==
  \A i \in 1 .. Len(s) - 1 : s[i][field] <= s[i + 1][field]

\* C13: every step leaves the previous contents of staggerEvents as a prefix
\* of the new contents, and, the input timestamps being non-decreasing, the
\* timestamps of staggerEvents and the x values of the pool series are
\* non-decreasing after every step.
C13_AppendOnlyInTimeOrder ==
  [][/\ Len(staggerEvents') >= Len(staggerEvents)
     /\ SubSeq(staggerEvents', 1, Len(staggerEvents)) = staggerEvents
     /\ NonDecreasing(staggerEvents', "timestamp")
     /\ NonDecreasing(PoolSeries', "x")]_vars

\* three stagger records, two at the same instant and one later
C13_Witness ==
  /\ Len(staggerEvents) = 3
  /\ staggerEvents[1].timestamp = staggerEvents[2].timestamp
  /\ staggerEvents[2].timestamp < staggerEvents[3].timestamp
  /\ staggerEvents[1] # staggerEvents[2]

-----------------------------------------------------------------------------
(* C15 *)

HealthSeries == HpSeries(hpEvents)

MaxHealthSeries == MaxHpSeries(hpEvents)

\* the y of the last point of the series, 0 for an empty series
LastY(series) == IF series = <<>> THEN 0 ELSE series[Len(series)].y

\* the y of the last point of the series whose y is not 0, 0 if there is none
LastNonZeroY(series) ==
  LET nonZero == {i \in 1 .. Len(series) : series[i].y # 0}
  IN  IF nonZero = {} THEN 0
      ELSE series[CHOOSE i \in nonZero : \A j \in nonZero : j <= i].y

\* a stagger record has just been appended
JustPooled == event.type \in {"addstagger", "removestagger"} /\ thrown = "none"

\* C15, as stated: lastHp is the y of the last point of the health series (0
\* when it is empty) and lastMaxHp the y of the last point of the max-health
\* series, so a pool-series point carries the latest health and max-health
\* plotted from the events ingested before it.
C15_LastIsLatestPoint ==
  /\ lastHp = LastY(HealthSeries)
  /\ lastMaxHp = LastY(MaxHealthSeries)
  /\ JustPooled => /\ Last(PoolSeries).hp = LastY(HealthSeries)
                   /\ Last(PoolSeries).maxHp = LastY(MaxHealthSeries)

\* C15, amended: lastHp is the y of the last point of the health series whose
\* y is not zero (0 when there is none) and lastMaxHp the y of the last
\* non-zero point of the max-health series, so a pool-series point carries the
\* latest non-zero health and max-health plotted from the events ingested
\* before it.
C15_LastIsLatestNonZeroPoint ==
  /\ lastHp = LastNonZeroY(HealthSeries)
  /\ lastMaxHp = LastNonZeroY(MaxHealthSeries)
  /\ JustPooled => /\ Last(PoolSeries).hp = LastNonZeroY(HealthSeries)
                   /\ Last(PoolSeries).maxHp = LastNonZeroY(MaxHealthSeries)

\* a health of zero was plotted after a non-zero one, and a stagger record
\* appended after both carries the non-zero one
C15_Witness ==
  /\ JustPooled
  /\ Len(HealthSeries) = 2
  /\ HealthSeries[1].y # 0
  /\ HealthSeries[2].y = 0
  /\ Last(PoolSeries).hp = HealthSeries[1].y
  /\ lastHp = HealthSeries[1].y

-----------------------------------------------------------------------------
(* C16 *)

\* C16: StaggerAdd, StaggerRemove and Death ingestion leave lastHp, lastMaxHp
\* and hpEvents alone; Damage and Heal ingestion leave staggerEvents,
\* purifyEvents and deathEvents alone; Death ingestion changes deathEvents
\* only, by appending one record.
C16_HandlerFrames ==
  [][/\ Ingests("addstagger") \/ Ingests("removestagger") \/ Ingests("death")
          => /\ lastHp' = lastHp
             /\ lastMaxHp' = lastMaxHp
             /\ hpEvents' = hpEvents
     /\ Ingests("damage") \/ Ingests("heal")
          => /\ staggerEvents' = staggerEvents
             /\ purifyEvents' = purifyEvents
             /\ deathEvents' = deathEvents
     /\ Ingests("death")
          => /\ GrowsByOne(deathEvents, deathEvents')
             /\ staggerEvents' = staggerEvents
             /\ purifyEvents' = purifyEvents]_vars

\* a death has just been recorded on an analyzer with a stagger record and a
\* known health
C16_Witness ==
  /\ event.type = "death"
  /\ Len(deathEvents) = 1
  /\ staggerEvents # <<>>
  /\ hpEvents # <<>>
  /\ lastHp # 0

-----------------------------------------------------------------------------
(* C17 *)

\* the positions in staggerEvents of the purification-triggered removals
PurificationPositions ==
  {i \in 1 .. Len(staggerEvents) : PurificationRemoval(staggerEvents[i])}

\* the purify record is the spread of the event the stagger record was made of
SameRemoval(purify, record) ==
  /\ purify.type = record.type
  /\ purify.timestamp = record.timestamp
  /\ purify.amount = record.amount
  /\ purify.newPooledDamage = record.newPooledDamage
  /\ purify.trigger = record.trigger

\* a purification-triggered removal was delivered and left no stagger record
PurificationFailed ==
  delivered.removestagger
    > Cardinality({i \in 1 .. Len(staggerEvents) :
                     staggerEvents[i].type = "removestagger"})

\* C17: in every reachable state, also after a failed purification ingestion,
\* purifyEvents has one record per purification-triggered removal record of
\* staggerEvents, the i-th made from the i-th, with previousTimestamp the
\* timestamp of the record just before that removal in staggerEvents; the
\* first record of staggerEvents is no purification-triggered removal, and
\* every purify marker's x is the x of some pool-series point.
C17_PurifiesMatchRemovals ==
  /\ Len(purifyEvents) = Cardinality(PurificationPositions)
  /\ 1 \notin PurificationPositions
  /\ \A i \in PurificationPositions :
       LET k == Cardinality({j \in PurificationPositions : j <= i})
       IN  /\ SameRemoval(purifyEvents[k], staggerEvents[i])
           /\ purifyEvents[k].previousTimestamp = staggerEvents[i - 1].timestamp
  /\ \A k \in 1 .. Len(PurifyMarkers) :
       \E j \in 1 .. Len(PoolSeries) : PurifyMarkers[k].x = PoolSeries[j].x

\* a purification failed on the empty history, and a later one was recorded
C17_Witness ==
  /\ PurificationFailed
  /\ Len(purifyEvents) = 1
  /\ Len(staggerEvents) = 2
  /\ purifyEvents[1].previousTimestamp < purifyEvents[1].timestamp

-----------------------------------------------------------------------------
(* C18 *)

\* C18: the input timestamps being non-decreasing, every purify marker's x is
\* at most the timestamp of the removal that produced it, and the x values of
\* the purify markers do not decrease.
C18_MarkersNotLate ==
  /\ Len(PurifyMarkers) = Len(PurificationRecords)
  /\ \A k \in 1 .. Len(PurifyMarkers) :
       PurifyMarkers[k].x <= PurificationRecords[k].timestamp
  /\ NonDecreasing(PurifyMarkers, "x")

\* two markers: the first earlier than its removal, the second at the instant
\* of its removal and later than the first
C18_Witness ==
  /\ Len(PurifyMarkers) = 2
  /\ Len(PurificationRecords) = 2
  /\ PurifyMarkers[1].x < PurificationRecords[1].timestamp
  /\ PurifyMarkers[2].x = PurificationRecords[2].timestamp
  /\ PurifyMarkers[1].x < PurifyMarkers[2].x

=============================================================================
